---- MODULE Spec2Model ----
(***************************************************************************)
(* A model of the SQLite connection wrapper: src/src/connection.rs (the    *)
(* owned Connection, the borrowed Conn view, Drop) and src/src/result.rs   *)
(* (ResultCode classification, Error construction and accessors).          *)
(*                                                                         *)
(* The native engine (libsqlite3) is the environment.  Every value it      *)
(* hands back (status codes, the resource pointer, the handle's last-error *)
(* state when it is read, probe results) is drawn from a small set with \E.*)
(***************************************************************************)
EXTENDS Integers, Sequences, FiniteSets, TLC

(***************************************************************************)
(* Program constants.                                                      *)
(***************************************************************************)
\* c_int is a 32 bit two's complement integer (ResultCode(pub(crate) c_int)).
IntBits == 32

\* ResultCode::OK, ROW, DONE, NOMEM (values of the SQLITE_* constants).
OK == 0
ROW == 100
DONE == 101
NOMEM == 7

\* The mask of to_primary: self.0 & 0xff.
PrimaryMask == 255

(***************************************************************************)
(* Bounds of the model.                                                    *)
(***************************************************************************)
\* Child resources (unfinalized statements) a collaborator may leave open.
MaxStmts == 1
\* Largest byte offset the engine reports from sqlite3_error_offset.
MaxOffset == 0
\* The pure classification functions are applied to every code in
\* -MaxCode .. MaxCode, and to the two ends of the c_int range.
MaxCode == 520

(***************************************************************************)
(* Option<T>: None is the empty sequence, Some(v) a one element sequence.  *)
(***************************************************************************)
None == << >>
Some(v) == << v >>
IsSome(o) == Len(o) = 1
Unwrap(o) == o[1]

(***************************************************************************)
(* 32 bit two's complement arithmetic.                                     *)
(***************************************************************************)
RECURSIVE Pow2(_)
Pow2(n) == IF n = 0 THEN 1 ELSE 2 * Pow2(n - 1)

\* The ends of the c_int range.
MinInt == (-Pow2(IntBits - 2)) * 2
MaxInt == (Pow2(IntBits - 2) - 1) * 2 + 1

RECURSIVE AndLow(_, _, _)
\* The low n bits of a & b: bit i of a two's complement integer x is
\* (x \div 2^i) % 2, with \div rounding down.
AndLow(a, b, n) ==
  IF n = 0 \/ a = 0 \/ b = 0 THEN 0
  ELSE (a % 2) * (b % 2) + 2 * AndLow(a \div 2, b \div 2, n - 1)

\* The & of two c_int values: the sign bit has weight MinInt.
BitAnd(x, y) ==
  AndLow(x, y, IntBits - 1) + (IF x < 0 /\ y < 0 THEN MinInt ELSE 0)

(***************************************************************************)
(* ResultCode.                                                             *)
(***************************************************************************)
\* A plausible slip: the mask forgotten.
to_primary_nomask(code) == code

\* ResultCode::to_primary: ResultCode(self.0 & 0xff).
to_primary(code) == BitAnd(code, PrimaryMask)

\* ResultCode::is_success: the primary code is OK, ROW or DONE.
is_success(code) == to_primary(code) \in {OK, ROW, DONE}

(***************************************************************************)
(* Text.  A C string of the engine is a sequence of chunks, each either    *)
(* valid UTF-8 text or an invalid byte; a Rust String is a TLA+ string.    *)
(***************************************************************************)
Chunk(valid, text) == [valid |-> valid, text |-> text]

\* What String::from_utf8_lossy puts for an invalid byte (U+FFFD).
ReplacementChar == "<U+FFFD>"

RECURSIVE from_utf8_lossy(_)
\* String::from_utf8_lossy(bytes).into_owned().
from_utf8_lossy(buf) ==
  IF buf = << >> THEN ""
  ELSE (IF Head(buf).valid THEN Head(buf).text ELSE ReplacementChar)
         \o from_utf8_lossy(Tail(buf))

\* CStr::to_str: Ok(text) for valid UTF-8, Err otherwise (None here).
to_str(buf) ==
  IF \A i \in 1..Len(buf) : buf[i].valid
    THEN Some(from_utf8_lossy(buf))
    ELSE None

\* sqlite3_errstr of the engine: the canned English text of a code.
sqlite3_errstr(code) ==
  CASE code = 516 -> << Chunk(TRUE, "abort due to ROLLBACK") >>
    [] code = ROW -> << Chunk(TRUE, "another row available") >>
    [] code = DONE -> << Chunk(TRUE, "no more rows available") >>
    [] OTHER ->
       LET p == code % 256 IN
       CASE p = 0 -> << Chunk(TRUE, "not an error") >>
         [] p = 1 -> << Chunk(TRUE, "SQL logic error") >>
         [] p = 5 -> << Chunk(TRUE, "database is locked") >>
         [] p = 7 -> << Chunk(TRUE, "out of memory") >>
         [] p = 10 -> << Chunk(TRUE, "disk I/O error") >>
         [] p = 14 -> << Chunk(TRUE, "unable to open database file") >>
         [] OTHER -> << Chunk(TRUE, "unknown error") >>

\* ResultCode::message: s.to_str().unwrap_or("unknown error").
ResultCode_message(code) ==
  LET s == to_str(sqlite3_errstr(code)) IN
  IF IsSome(s) THEN Unwrap(s) ELSE "unknown error"

(***************************************************************************)
(* Error.                                                                  *)
(***************************************************************************)
\* struct Error { result_code, msg, error_offset }.
MkError(code, msg, off) ==
  [result_code |-> code, msg |-> msg, error_offset |-> off]

\* Result<T>: Ok(v) or Err(e); a panic is the third outcome of a call.
ResOk(v) == [kind |-> "Ok", val |-> << v >>, err |-> << >>]
ResErr(e) == [kind |-> "Err", val |-> << >>, err |-> << e >>]

\* A plausible slip: every code turned into an Error.
to_result_always_err(code) == ResErr(MkError(code, "", None))

\* ResultCode::to_result.
to_result(code) ==
  IF is_success(code)
    THEN ResOk(code)
    ELSE ResErr(MkError(code, "", None))

\* A plausible slip: the custom message always returned.
Error_message_custom(e) == e.msg

\* Error::message.
Error_message(e) ==
  IF e.msg = "" THEN ResultCode_message(e.result_code) ELSE e.msg

\* impl fmt::Display for ResultCode: f.write_str(self.message()).
ResultCode_display(code) == ResultCode_message(code)

\* impl fmt::Display for Error.
Error_display(e) ==
  IF e.msg = "" THEN ResultCode_display(e.result_code) ELSE e.msg

\* A plausible slip: the offset kept.
clear_error_offset_keep(e) == e

\* Error::clear_error_offset.
clear_error_offset(e) == [e EXCEPT !.error_offset = None]

(***************************************************************************)
(* The engine.                                                             *)
(***************************************************************************)
\* Status codes the engine hands back: the three success codes, an extended
\* success code (SQLITE_OK_LOAD_PERMANENTLY), a primary failure code
\* (SQLITE_NOMEM) and an extended one (SQLITE_IOERR_READ).
Codes == {OK, ROW, DONE, 256, NOMEM, 266}

\* Message buffers sqlite3_errmsg may point at: plain text, and text with a
\* byte that is not valid UTF-8.
EngineMsgs ==
  { << Chunk(TRUE, "near x: syntax error") >>,
    << Chunk(TRUE, "no such table: "), Chunk(FALSE, "0xFF") >> }

\* The last-error state of a handle, as its getters answer when it is read:
\* sqlite3_extended_errcode, sqlite3_errmsg, sqlite3_error_offset.
ErrStates == [code : Codes, msg : EngineMsgs, off : -1..MaxOffset]

\* Build features of the crate (#[cfg(feature = ...)]).
FeatureSets == {{}, {"buildtime_bindgen"}, {"modern"}}

\* A native resource (struct sqlite3) as the wrapper can observe it.
\*   stmts: its unfinalized child resources; authorizer: a callback is
\*   installed; closes: sqlite3_close calls issued on it; misuse: some
\*   call was made on it after it was released.
NoRes ==
  [state |-> "none", stmts |-> 0, authorizer |-> FALSE, closes |-> 0,
   misuse |-> FALSE]

\* The resource sqlite3_open_v2 stores through ppDb.
NewRes == [NoRes EXCEPT !.state = "open"]

\* Any native call that takes the handle.
Touch(r) == IF r.state = "open" THEN r ELSE [r EXCEPT !.misuse = TRUE]

\* sqlite3_close: releases the resource when it answers OK.
sqlite3_close(r, status) ==
  [Touch(r) EXCEPT !.closes = @ + 1,
                   !.state = IF status = OK THEN "closed" ELSE @]

\* The statuses sqlite3_close can answer: OK unless child resources
\* (unfinalized statements) are outstanding.
CloseStatuses(r) == IF r.stmts = 0 THEN {OK} ELSE Codes \ {OK}

(***************************************************************************)
(* Error extraction.                                                       *)
(***************************************************************************)
\* Error::get_error_offset.
get_error_offset(es, feats) ==
  IF "modern" \in feats
    THEN (IF es.off < 0 THEN None ELSE Some(es.off))
    ELSE None

\* A plausible slip: the primary code kept instead of the extended one.
Error_get_primary(es, feats) ==
  IF is_success(es.code) THEN None
  ELSE Some(MkError(to_primary(es.code), from_utf8_lossy(es.msg),
                    get_error_offset(es, feats)))

\* Error::get: None when sqlite3_extended_errcode is a success code.
Error_get(es, feats) ==
  LET result_code == es.code IN
  IF is_success(result_code) THEN None
  ELSE LET error_offset == get_error_offset(es, feats)
           msg == from_utf8_lossy(es.msg)
       IN Some(MkError(result_code, msg, error_offset))

\* Conn::error on a handle whose last-error state is es.
Conn_error(r, es, feats) == [r |-> Touch(r), e |-> Error_get(es, feats)]

(***************************************************************************)
(* State.                                                                  *)
(***************************************************************************)
VARIABLES
  features,  \* the cargo features the crate was built with
  res,       \* the native resource of the current (or last) open call
  conn,      \* the caller's Connection: its life and its authorizer field
  err,       \* Option<Error>: the Error value the caller holds
  ret,       \* what the last call was given by the engine and returned
  panicked   \* a panic has ended the process

vars == << features, res, conn, err, ret, panicked >>

\* struct Connection { ptr, authorizer }; ptr is the resource res.
NoConn == [state |-> "none", authorizer |-> FALSE]
LiveConn == [state |-> "live", authorizer |-> FALSE]

\* The fields of ret that a call does not set.
\*   rc: the status the engine answered (or the code argument);
\*   null: sqlite3_open_v2 left the resource pointer null;
\*   val: a returned Option<bool>; out: a returned ResultCode;
\*   text, display: returned strings;
\*   es: the last-error state the handle held when it was read;
\*   diag: reads of the handle's last-error state; writes: the
\*   configuration writes of open; clear, close: the statuses of the
\*   authorizer clear (if attempted) and of sqlite3_close (if issued).
R0 ==
  [op |-> "init", kind |-> "Unit", rc |-> OK, null |-> FALSE, val |-> None,
   out |-> None, text |-> "", display |-> "", es |-> None, diag |-> 0,
   writes |-> << >>, clear |-> None, close |-> None]

Init ==
  /\ features \in FeatureSets
  /\ res = NoRes
  /\ conn = NoConn
  /\ err = None
  /\ ret = R0
  /\ panicked = FALSE

\* The state a call leaves: features are fixed at build time.
Return(c, r, e, rt, p) ==
  /\ conn' = c
  /\ res' = r
  /\ err' = e
  /\ ret' = rt
  /\ panicked' = p
  /\ UNCHANGED features

(***************************************************************************)
(* Connection: configuration, authorizer, teardown.                        *)
(***************************************************************************)
\* A plausible slip: the primary code reported instead of the status.
Connection_config_primary(r, rc) ==
  LET t == to_result(to_primary(rc)) IN
  [r |-> Touch(r), diag |-> 0,
   result |-> IF t.kind = "Ok" THEN ResOk("unit") ELSE t]

\* Connection::config: sqlite3_db_config answered rc;
\* rc.to_result().map(|_| ()).  diag: the reads of the handle's
\* last-error state (none).
Connection_config(r, rc) ==
  LET t == to_result(rc) IN
  [r |-> Touch(r), diag |-> 0,
   result |-> IF t.kind = "Ok" THEN ResOk("unit") ELSE t]

\* Connection::clear_authorizer: the callback slot of the handle is
\* emptied, the engine answers rc.
clear_authorizer(r, rc) ==
  [r |-> [Touch(r) EXCEPT !.authorizer = FALSE],
   result |-> to_result(rc)]

\* A plausible slip: a failed clear returned early, the release skipped.
Connection_drop_clear_fatal(c, r, clearRc, closeRc) ==
  LET cl == clear_authorizer(r, clearRc)
      failed == c.authorizer /\ cl.result.kind = "Err"
      r1 == IF c.authorizer THEN cl.r ELSE r
      r2 == IF failed THEN r1 ELSE sqlite3_close(r1, closeRc)
  IN [conn |-> [state |-> "dropped", authorizer |-> FALSE],
      res |-> r2,
      clear |-> IF c.authorizer THEN Some(clearRc) ELSE None,
      close |-> IF failed THEN None ELSE Some(closeRc),
      panic |-> ~failed /\ closeRc # OK]

\* A plausible slip: the resource never released.
Connection_drop_leak(c, r, clearRc, closeRc) ==
  [conn |-> [state |-> "dropped", authorizer |-> FALSE],
   res |-> r, clear |-> None, close |-> None, panic |-> FALSE]

\* impl Drop for Connection: the authorizer, if any, is cleared and the
\* result dropped; then sqlite3_close, whose status must be OK.
Connection_drop(c, r, clearRc, closeRc) ==
  LET r1 == IF c.authorizer THEN clear_authorizer(r, clearRc).r ELSE r
      r2 == sqlite3_close(r1, closeRc)
  IN [conn |-> [state |-> "dropped", authorizer |-> FALSE],
      res |-> r2,
      clear |-> IF c.authorizer THEN Some(clearRc) ELSE None,
      close |-> Some(closeRc),
      panic |-> closeRc # OK]

\* The statuses the clear of the authorizer can answer.
ClearStatuses(c) == IF c.authorizer THEN Codes ELSE {OK}

(***************************************************************************)
(* Connection::open.                                                       *)
(***************************************************************************)
\* What open leaves behind: the Connection and the resource, the Result it
\* returns (kind, e), and what it did on the way.
OpenOutcome(c, r, kind, e, diag, writes, close) ==
  [conn |-> c, res |-> r, kind |-> kind, e |-> e, diag |-> diag,
   writes |-> writes, close |-> close]

\* One configuration write of open, as recorded in ret.writes.
Write(flag, value, rc) == [flag |-> flag, value |-> value, rc |-> rc]

\* The end of a failed open: conn goes out of scope and is dropped.
OpenFailed(c, r, e, diag, writes, closeRc) ==
  LET d == Connection_drop(c, r, OK, closeRc) IN
  OpenOutcome(d.conn, d.res,
              IF IsSome(e) /\ ~d.panic THEN "Err" ELSE "Panic",
              e, diag, writes, d.close)

\* A plausible slip: the engine's status reported for a null pointer.
Open_null_rc(rc) ==
  LET t == to_result(rc) IN
  OpenOutcome(NoConn, NoRes,
              IF t.kind = "Err" THEN "Err" ELSE "Panic",
              t.err, 0, << >>, None)

\* open, the pointer null:
\* None => return Err(ResultCode::NOMEM.to_result().unwrap_err()).
Open_null(rc) ==
  LET t == to_result(NOMEM) IN
  OpenOutcome(NoConn, NoRes,
              IF t.kind = "Err" THEN "Err" ELSE "Panic",
              t.err, 0, << >>, None)

\* open, rc != OK: return Err(conn.as_ref().error().unwrap()), with the
\* handle's last-error state es.  A None unwraps into a panic; conn is
\* dropped either way.
Open_failed(es, closeRc, feats) ==
  LET g == Conn_error(NewRes, es, feats) IN
  OpenFailed(LiveConn, g.r, g.e, 1, << >>, closeRc)

\* A plausible slip: the first write's result dropped instead of `?`.
Open_normalize_unchecked(rc1, rc2, closeRc) ==
  LET w1 == Connection_config(NewRes, rc1)
      w2 == Connection_config(w1.r, rc2)
      l2 == << Write("DoubleQuotedStringDML", FALSE, rc1),
               Write("DoubleQuotedStringDDL", FALSE, rc2) >>
  IN IF w2.result.kind = "Err"
       THEN OpenFailed(LiveConn, w2.r, w2.result.err, w1.diag + w2.diag, l2,
                       closeRc)
       ELSE OpenOutcome(LiveConn, w2.r, "Ok", None, w1.diag + w2.diag, l2,
                        None)

\* open, rc == OK on a build with "modern" or "buildtime_bindgen":
\* conn.config(DoubleQuotedStringDML, false)?; then ...DDL; Ok(conn).
Open_normalize(rc1, rc2, closeRc) ==
  LET w1 == Connection_config(NewRes, rc1)
      l1 == << Write("DoubleQuotedStringDML", FALSE, rc1) >>
  IN IF w1.result.kind = "Err"
       THEN OpenFailed(LiveConn, w1.r, w1.result.err, w1.diag, l1, closeRc)
       ELSE LET w2 == Connection_config(w1.r, rc2)
                l2 == Append(l1, Write("DoubleQuotedStringDDL", FALSE, rc2))
            IN IF w2.result.kind = "Err"
                 THEN OpenFailed(LiveConn, w2.r, w2.result.err,
                                 w1.diag + w2.diag, l2, closeRc)
                 ELSE OpenOutcome(LiveConn, w2.r, "Ok", None,
                                  w1.diag + w2.diag, l2, None)

\* Connection::open.  The engine's sqlite3_open_v2 answered rc and left the
\* resource pointer null (null) or pointing at a resource whose last-error
\* state is es; rc1 and rc2 are the statuses of the two configuration
\* writes, closeRc that of sqlite3_close should the Connection be dropped.
Connection_open(null, rc, es, rc1, rc2, closeRc, feats) ==
  IF null THEN Open_null(rc)
  ELSE IF rc # OK THEN Open_failed(es, closeRc, feats)
  ELSE IF feats # {} THEN Open_normalize(rc1, rc2, closeRc)
  ELSE OpenOutcome(LiveConn, NewRes, "Ok", None, 0, << >>, None)

\* The caller opens a database; a Connection of an earlier open, if any,
\* has been dropped.
Open ==
  /\ ~panicked
  /\ conn.state # "live"
  /\ \E null \in BOOLEAN, rc \in Codes :
     \E es \in (IF ~null /\ rc # OK THEN ErrStates
                  ELSE {CHOOSE x \in ErrStates : TRUE}) :
     \E rc1 \in (IF ~null /\ rc = OK /\ features # {} THEN Codes ELSE {OK}) :
     \E rc2 \in (IF ~null /\ rc = OK /\ features # {} /\ is_success(rc1)
                   THEN Codes ELSE {OK}) :
     \E closeRc \in CloseStatuses(NewRes) :
       LET o == Connection_open(null, rc, es, rc1, rc2, closeRc, features)
       IN Return(o.conn, o.res,
                 IF o.kind = "Err" THEN o.e ELSE err,
                 [R0 EXCEPT !.op = "open", !.kind = o.kind, !.rc = rc,
                            !.null = null,
                            !.es = IF o.diag > 0 THEN Some(es) ELSE None,
                            !.diag = o.diag, !.writes = o.writes,
                            !.close = o.close],
                 o.kind = "Panic")

(***************************************************************************)
(* Calls on a live Connection.                                             *)
(***************************************************************************)
\* conn.config(flag, value): the flag and the value go to the engine as
\* they are, and the engine answers rc.
Config ==
  /\ ~panicked
  /\ conn.state = "live"
  /\ \E rc \in Codes :
       LET w == Connection_config(res, rc) IN
       Return(conn, w.r,
              IF w.result.kind = "Err" THEN w.result.err ELSE err,
              [R0 EXCEPT !.op = "config", !.kind = w.result.kind,
                         !.rc = rc, !.diag = w.diag],
              FALSE)

\* Connection::set_authorizer: a callback is installed on the handle when
\* the engine answers success.
SetAuthorizer ==
  /\ ~panicked
  /\ conn.state = "live"
  /\ \E rc \in Codes :
       LET t == to_result(rc)
           r1 == IF conn.authorizer THEN clear_authorizer(res, OK).r
                 ELSE Touch(res)
       IN Return([conn EXCEPT !.authorizer = (t.kind = "Ok")],
                 [r1 EXCEPT !.authorizer = (t.kind = "Ok")],
                 IF t.kind = "Err" THEN t.err ELSE err,
                 [R0 EXCEPT !.op = "set_authorizer", !.kind = t.kind,
                            !.rc = rc],
                 FALSE)

\* A collaborator (a statement, a blob, a backup) calls the engine through
\* the handle: a child resource is created or finalized.
CollaboratorCall ==
  /\ ~panicked
  /\ conn.state = "live"
  /\ \E d \in {-1, 1} :
       /\ res.stmts + d \in 0..MaxStmts
       /\ Return(conn,
                 [Touch(res) EXCEPT !.stmts = @ + d],
                 err,
                 [R0 EXCEPT !.op = "collaborator"],
                 FALSE)

\* A plausible slip: the probe's answer read as a C boolean.
Conn_db_readonly_bool(result) ==
  IF result = -1 THEN [kind |-> "None", val |-> None]
  ELSE [kind |-> "Some", val |-> Some(result # 0)]

\* Conn::db_readonly: the match on the probe's answer.
Conn_db_readonly(result) ==
  CASE result = -1 -> [kind |-> "None", val |-> None]
    [] result = 0 -> [kind |-> "Some", val |-> Some(FALSE)]
    [] result = 1 -> [kind |-> "Some", val |-> Some(TRUE)]
    [] OTHER -> [kind |-> "Panic", val |-> None]

\* What sqlite3_db_readonly may answer.
ProbeResults == {-1, 0, 1, 2}

\* conn.db_readonly(schema).
DbReadonly ==
  /\ ~panicked
  /\ conn.state = "live"
  /\ \E result \in ProbeResults :
       LET o == Conn_db_readonly(result) IN
       Return(conn, Touch(res), err,
              [R0 EXCEPT !.op = "db_readonly", !.kind = o.kind,
                         !.rc = result, !.val = o.val],
              o.kind = "Panic")

\* Conn::get_config: rc.to_result().map(|_| val.assume_init() != 0).
Conn_get_config(rc, val) ==
  LET t == to_result(rc) IN
  IF t.kind = "Ok" THEN ResOk(val # 0) ELSE t

\* conn.get_config(flag): the engine answers rc and, on success, has
\* stored the flag's value through the out pointer.
GetConfig ==
  /\ ~panicked
  /\ conn.state = "live"
  /\ \E rc \in Codes :
     \E val \in (IF is_success(rc) THEN {0, 1} ELSE {0}) :
       LET t == Conn_get_config(rc, val) IN
       Return(conn, Touch(res),
              IF t.kind = "Err" THEN t.err ELSE err,
              [R0 EXCEPT !.op = "get_config", !.kind = t.kind, !.rc = rc,
                         !.val = t.val],
              FALSE)

\* Conn::get_autocommit: sqlite3_get_autocommit(..) != 0.
Conn_get_autocommit(v) == v # 0

\* conn.get_autocommit().
GetAutocommit ==
  /\ ~panicked
  /\ conn.state = "live"
  /\ \E v \in {0, 1} :
       Return(conn, Touch(res), err,
              [R0 EXCEPT !.op = "get_autocommit", !.kind = "Ok",
                         !.val = Some(Conn_get_autocommit(v))],
              FALSE)

\* conn.error(): the caller keeps the Error it is given.
LastError ==
  /\ ~panicked
  /\ conn.state = "live"
  /\ \E es \in ErrStates :
       LET g == Conn_error(res, es, features) IN
       Return(conn, g.r,
              IF IsSome(g.e) THEN g.e ELSE err,
              [R0 EXCEPT !.op = "error",
                         !.kind = IF IsSome(g.e) THEN "Some" ELSE "None",
                         !.es = Some(es), !.diag = 1],
              FALSE)

\* The Connection goes out of scope.
Drop ==
  /\ ~panicked
  /\ conn.state = "live"
  /\ \E clearRc \in ClearStatuses(conn), closeRc \in CloseStatuses(res) :
       LET d == Connection_drop(conn, res, clearRc, closeRc) IN
       Return(d.conn, d.res, err,
              [R0 EXCEPT !.op = "drop",
                         !.kind = IF d.panic THEN "Panic" ELSE "Unit",
                         !.clear = d.clear, !.close = d.close],
              d.panic)

(***************************************************************************)
(* Calls that need no Connection: ResultCode and Error.                    *)
(***************************************************************************)
\* Custom messages a caller passes to Error::new.
CustomMsgs == {"", "boom"}

\* The codes the classification functions are applied to.
CodeRange == (-MaxCode..MaxCode) \cup {MinInt, MaxInt}

\* A plausible slip: the assertion left out.
Error_new_unchecked(code, msg) ==
  [panic |-> FALSE, e |-> Some(MkError(code, msg, None))]

\* Error::new: assert!(!result_code.is_success()).
Error_new(code, msg) ==
  IF is_success(code)
    THEN [panic |-> TRUE, e |-> None]
    ELSE [panic |-> FALSE, e |-> Some(MkError(code, msg, None))]

\* Error::new(code, msg) for a code of S; held is the Error the caller is
\* left with when the call gives none.
ErrorNew(S, held) ==
  /\ ~panicked
  /\ \E code \in S, msg \in CustomMsgs :
       LET n == Error_new(code, msg) IN
       Return(conn, res,
              IF n.panic THEN held ELSE n.e,
              [R0 EXCEPT !.op = "new",
                         !.kind = IF n.panic THEN "Panic" ELSE "Ok",
                         !.rc = code, !.text = msg],
              n.panic)

\* code.to_result() for a code of S.
ToResult(S, held) ==
  /\ ~panicked
  /\ \E code \in S :
       LET t == to_result(code) IN
       Return(conn, res,
              IF t.kind = "Err" THEN t.err ELSE held,
              [R0 EXCEPT !.op = "to_result", !.kind = t.kind, !.rc = code,
                         !.out = t.val],
              FALSE)

\* code.to_primary() and code.is_success() for a code of S.
Classify(S, held) ==
  /\ ~panicked
  /\ \E code \in S :
       Return(conn, res, held,
              [R0 EXCEPT !.op = "classify", !.kind = "Ok", !.rc = code,
                         !.out = Some(to_primary(code)),
                         !.val = Some(is_success(code))],
              FALSE)

\* err.clear_error_offset() on the Error the caller holds.
ClearErrorOffset ==
  /\ ~panicked
  /\ IsSome(err)
  /\ Return(conn, res, Some(clear_error_offset(Unwrap(err))),
            [R0 EXCEPT !.op = "clear_error_offset",
                       !.es = Some(Unwrap(err))],
            FALSE)

\* err.message() and err.to_string() on the Error the caller holds.
Message ==
  /\ ~panicked
  /\ IsSome(err)
  /\ Return(conn, res, err,
            [R0 EXCEPT !.op = "message", !.kind = "Ok",
                       !.text = Error_message(Unwrap(err)),
                       !.display = Error_display(Unwrap(err))],
            FALSE)

(***************************************************************************)
(* Specifications.                                                         *)
(***************************************************************************)
\* The connection's life, with the Error values every path produces.
Next ==
  \/ Open
  \/ Config
  \/ SetAuthorizer
  \/ CollaboratorCall
  \/ DbReadonly
  \/ GetConfig
  \/ GetAutocommit
  \/ LastError
  \/ Drop
  \/ ErrorNew(Codes, err)
  \/ ToResult(Codes, err)
  \/ ClearErrorOffset
  \/ Message

Spec == Init /\ [][Next]_vars

\* The pure functions of result.rs, each applied once to a code drawn
\* from a range of c_int values.
InitCode ==
  /\ features \in FeatureSets
  /\ res = NoRes
  /\ conn = NoConn
  /\ err = None
  /\ \E code \in CodeRange : ret = [R0 EXCEPT !.op = "input", !.rc = code]
  /\ panicked = FALSE

NextCode ==
  /\ ret.op = "input"
  /\ \/ Classify({ret.rc}, None)
     \/ ToResult({ret.rc}, None)
     \/ ErrorNew({ret.rc}, None)

SpecCode == InitCode /\ [][NextCode]_vars

(***************************************************************************)
(* Properties.                                                             *)
(***************************************************************************)
\* The low 8 bits of a code, as a remainder (not through BitAnd).
Low8(x) == x % 256

\* The calls made through the borrowed view, and config.
ViewOps == {"db_readonly", "get_config", "get_autocommit", "error"}

\* C1: sqlite3_close is issued exactly once for each non-null resource that
\* sqlite3_open_v2 returned, and only by the destruction of the owning
\* Connection: the resource has been closed once exactly when its
\* Connection has been dropped, never twice; a call through the borrowed
\* view (and a config write) leaves the Connection live and the resource
\* open and unreleased; no call is made on a resource after its release.
C1_ReleasedOnceOnDrop ==
  /\ res.closes <= 1
  /\ (res.closes = 1) <=> (conn.state = "dropped")
  /\ (conn.state = "none") => (res.state = "none")
  /\ (conn.state = "live") => (res.state = "open")
  /\ (ret.op \in ViewOps \cup {"config"}) =>
       (conn.state = "live" /\ res.state = "open" /\ res.closes = 0)
  /\ ~res.misuse

\* A Connection was used and dropped, and its resource released.
C1_Witness ==
  /\ ret.op = "drop"
  /\ ret.kind = "Unit"
  /\ conn.state = "dropped"
  /\ res.state = "closed"
  /\ res.closes = 1
  /\ IsSome(err)

\* C2: when sqlite3_open_v2 returns a non-null resource with a non-success
\* status, open returns Err with the Error read from the handle's
\* last-error state, hands no Connection to the caller, and has released
\* the resource exactly once.
C2_FailedOpenReturnsHandleError ==
  (ret.op = "open" /\ ~ret.null /\ Low8(ret.rc) \notin {OK, ROW, DONE}) =>
    /\ ret.kind = "Err"
    /\ IsSome(ret.es)
    /\ err = Some(MkError(Unwrap(ret.es).code,
                          from_utf8_lossy(Unwrap(ret.es).msg),
                          IF "modern" \in features /\ Unwrap(ret.es).off >= 0
                            THEN Some(Unwrap(ret.es).off) ELSE None))
    /\ conn.state = "dropped"
    /\ res.closes = 1

\* C3: when sqlite3_open_v2 leaves the resource pointer null, open returns
\* Err(NOMEM, empty message, no offset) whatever status it answered; no
\* Connection exists, the last-error state is not read, and sqlite3_close
\* is not issued.
C3_NullPointerIsNomem ==
  (ret.op = "open" /\ ret.null) =>
    /\ ret.kind = "Err"
    /\ ~panicked
    /\ err = Some(MkError(NOMEM, "", None))
    /\ conn.state = "none"
    /\ res.state = "none"
    /\ res.closes = 0
    /\ ret.diag = 0
    /\ ret.close = None

\* open was answered a null pointer together with a success status.
C3_Witness ==
  /\ ret.op = "open"
  /\ ret.null
  /\ ret.rc = OK
  /\ ret.kind = "Err"

\* C4: in a step that destroys a Connection, the authorizer is cleared
\* exactly when one was installed, and before the release (no call follows
\* the release); sqlite3_close is issued whatever the clear answered; the
\* destruction panics exactly when sqlite3_close answers a status other
\* than OK, and hands the caller no Error.
C4_Teardown ==
  [][(ret'.op = "drop") =>
       /\ IsSome(ret'.clear) <=> conn.authorizer
       /\ IsSome(ret'.close)
       /\ res'.closes = res.closes + 1
       /\ ~res'.misuse
       /\ ~res'.authorizer
       /\ conn'.state = "dropped"
       /\ (ret'.kind = "Panic") <=> (Unwrap(ret'.close) # OK)
       /\ (ret'.kind = "Unit") <=> (Unwrap(ret'.close) = OK)
       /\ panicked' <=> (Unwrap(ret'.close) # OK)
       /\ err' = err]_vars

\* A Connection was destroyed whose authorizer clear failed, and its
\* resource was released all the same.
C4_Witness ==
  /\ ret.op = "drop"
  /\ IsSome(ret.clear)
  /\ Low8(Unwrap(ret.clear)) \notin {OK, ROW, DONE}
  /\ ret.close = Some(OK)
  /\ res.state = "closed"

\* C5: every Error the caller can hold, however it was built and after any
\* clear_error_offset, has a result code that is not a success code; and
\* Error::new panics for every code whose primary is OK, ROW or DONE.
C5_ErrorCodeNeverSuccess ==
  /\ IsSome(err) => ~is_success(Unwrap(err).result_code)
  /\ IsSome(err) => Low8(Unwrap(err).result_code) \notin {OK, ROW, DONE}
  /\ (ret.op = "new" /\ Low8(ret.rc) \in {OK, ROW, DONE}) =>
       (ret.kind = "Panic" /\ panicked)

\* An Error read from a handle, with an offset, had its offset cleared.
C5_Witness ==
  /\ ret.op = "clear_error_offset"
  /\ IsSome(ret.es)
  /\ IsSome(Unwrap(ret.es).error_offset)
  /\ IsSome(err)
  /\ Unwrap(err).msg \notin CustomMsgs

\* C6: is_success(x) is true exactly when the low 8 bits of x are OK, ROW
\* or DONE; to_primary(x) is the low 8 bits of x, and is idempotent.
C6_ClassifyByLowByte ==
  (ret.op = "classify") =>
    /\ Unwrap(ret.val) <=> (Low8(ret.rc) \in {OK, ROW, DONE})
    /\ Unwrap(ret.out) = Low8(ret.rc)
    /\ to_primary(Unwrap(ret.out)) = Unwrap(ret.out)

\* A negative code whose low 8 bits are ROW was classified a success.
C6_Witness ==
  /\ ret.op = "classify"
  /\ ret.rc < 0
  /\ ret.out = Some(ROW)
  /\ ret.val = Some(TRUE)

\* C7: to_result(c) is Ok(c), the extended value unchanged, when c is a
\* success code, and otherwise Err of an Error with result code c, an empty
\* custom message (message() is the canned text) and no offset; it never
\* panics.
C7_ToResult ==
  (ret.op = "to_result") =>
    /\ ~panicked
    /\ IF Low8(ret.rc) \in {OK, ROW, DONE}
         THEN /\ ret.kind = "Ok"
              /\ ret.out = Some(ret.rc)
              /\ err = None
         ELSE /\ ret.kind = "Err"
              /\ ret.out = None
              /\ err = Some([result_code |-> ret.rc, msg |-> "",
                             error_offset |-> None])
              /\ Error_message(Unwrap(err)) = ResultCode_message(ret.rc)

\* An extended success code went through to_result unchanged.
C7_Witness ==
  /\ ret.op = "to_result"
  /\ ret.kind = "Ok"
  /\ ret.rc > PrimaryMask
  /\ ret.out = Some(ret.rc)

\* C8: config returns Ok(()) exactly when sqlite3_db_config answers a
\* success status, and otherwise Err of an Error with exactly that status,
\* no custom message and no offset, without reading the handle's
\* last-error state; the Connection stays live and the resource open.
C8_ConfigResult ==
  (ret.op = "config") =>
    /\ ~panicked
    /\ (ret.kind = "Ok") <=> (Low8(ret.rc) \in {OK, ROW, DONE})
    /\ (ret.kind = "Err") <=> (Low8(ret.rc) \notin {OK, ROW, DONE})
    /\ (ret.kind = "Err") => err = Some(MkError(ret.rc, "", None))
    /\ ret.diag = 0
    /\ conn.state = "live"
    /\ res.state = "open"
    /\ res.closes = 0

\* A config write failed with an extended status.
C8_Witness ==
  /\ ret.op = "config"
  /\ ret.kind = "Err"
  /\ ret.rc > PrimaryMask
  /\ conn.state = "live"

\* The Error that Conn::error builds from the last-error state es.
ExpectedError(es) ==
  [result_code |-> es.code,
   msg |-> from_utf8_lossy(es.msg),
   error_offset |-> IF "modern" \in features /\ es.off >= 0
                      THEN Some(es.off) ELSE None]

\* C9: Conn::error returns None exactly when the handle's extended status
\* is a success code; otherwise it returns an Error with that extended
\* code and with the message and the offset the handle held at the call
\* (the offset on builds that can ask for it); and the Error is a copy: a
\* later call on the handle that returns no Error leaves it as it was.
C9_LastError ==
  /\ [](ret.op = "error" =>
          /\ IsSome(ret.es)
          /\ (ret.kind = "None") <=>
               (Low8(Unwrap(ret.es).code) \in {OK, ROW, DONE})
          /\ (ret.kind = "Some") <=>
               (Low8(Unwrap(ret.es).code) \notin {OK, ROW, DONE})
          /\ (ret.kind = "Some") =>
               err = Some(ExpectedError(Unwrap(ret.es))))
  /\ [][(/\ ret'.op \in ViewOps \cup {"config", "collaborator",
                                      "set_authorizer", "drop"}
         /\ ret'.kind \notin {"Err", "Some"}) => err' = err]_vars

\* Conn::error returned an Error with an extended code, a message that was
\* not valid UTF-8 and an offset.
C9_Witness ==
  /\ ret.op = "error"
  /\ ret.kind = "Some"
  /\ Unwrap(ret.es).code > PrimaryMask
  /\ Len(Unwrap(ret.es).msg) > 1
  /\ IsSome(err)
  /\ IsSome(Unwrap(err).error_offset)

\* C10: message() is the custom message when there is one and the canned
\* text of the result code otherwise; it is never empty; and Display
\* renders the same text.
C10_Message ==
  (ret.op = "message") =>
    /\ IsSome(err)
    /\ ret.text = (IF Unwrap(err).msg # "" THEN Unwrap(err).msg
                   ELSE ResultCode_message(Unwrap(err).result_code))
    /\ ret.text # ""
    /\ ret.display = ret.text

\* The message of an Error without a custom message was the canned text.
C10_Witness ==
  /\ ret.op = "message"
  /\ IsSome(err)
  /\ Unwrap(err).msg = ""
  /\ ret.text = "out of memory"
  /\ ret.display = "out of memory"

\* C11: db_readonly returns None when the probe answers -1, Some(false)
\* when it answers 0 and Some(true) when it answers 1; any other answer
\* panics and gives the caller neither a value nor an Error; the call
\* leaves the Connection, the resource and the caller's Error as they were.
C11_DbReadonly ==
  /\ [](ret.op = "db_readonly" =>
          /\ ret.rc = -1 => (ret.kind = "None" /\ ret.val = None /\ ~panicked)
          /\ ret.rc = 0 =>
                (ret.kind = "Some" /\ ret.val = Some(FALSE) /\ ~panicked)
          /\ ret.rc = 1 =>
                (ret.kind = "Some" /\ ret.val = Some(TRUE) /\ ~panicked)
          /\ ret.rc \notin {-1, 0, 1} =>
                (ret.kind = "Panic" /\ ret.val = None /\ panicked))
  /\ [][ret'.op = "db_readonly" =>
          (conn' = conn /\ res' = res /\ err' = err)]_vars

\* The probe answered outside its three sentinels and the call panicked.
C11_Witness ==
  /\ ret.op = "db_readonly"
  /\ ret.rc = 2
  /\ ret.kind = "Panic"
  /\ panicked
  /\ res.state = "open"

\* C12: clear_error_offset leaves the Error with error_offset() = None and
\* with the result code and the message it had; a second call changes
\* nothing; an Error built by Error::new or by to_result has
\* error_offset() = None from the start.
C12_ClearErrorOffset ==
  /\ [](ret.op = "clear_error_offset" =>
          /\ IsSome(err) /\ IsSome(ret.es)
          /\ Unwrap(err).error_offset = None
          /\ Unwrap(err).result_code = Unwrap(ret.es).result_code
          /\ Unwrap(err).msg = Unwrap(ret.es).msg
          /\ Error_message(Unwrap(err)) = Error_message(Unwrap(ret.es)))
  /\ [][(ret.op = "clear_error_offset" /\ ret'.op = "clear_error_offset")
          => err' = err]_vars
  /\ []((ret.op = "new" /\ ret.kind = "Ok") =>
          (IsSome(err) /\ Unwrap(err).error_offset = None))
  /\ []((ret.op = "to_result" /\ ret.kind = "Err") =>
          (IsSome(err) /\ Unwrap(err).error_offset = None))

\* An Error that carried an offset has had it cleared.
C12_Witness ==
  /\ ret.op = "clear_error_offset"
  /\ IsSome(ret.es)
  /\ Unwrap(ret.es).error_offset = Some(0)
  /\ Unwrap(err).error_offset = None
  /\ Unwrap(err).msg # ""

\* A configuration write of open that the engine refused.
WriteFailed(w) == Low8(w.rc) \notin {OK, ROW, DONE}

\* The Connection of a failed open is gone and its resource was released
\* by one sqlite3_close.
ReleasedOnce ==
  /\ conn.state = "dropped"
  /\ res.state = "closed"
  /\ res.closes = 1
  /\ ret.close = Some(OK)

\* C13: on a build with feature modern or buildtime_bindgen, an open whose
\* engine call answered OK writes DoubleQuotedStringDML = false and then
\* DoubleQuotedStringDDL = false; it returns Ok only after both writes
\* succeeded; a failed write ends open with the Error of that write, a
\* failed first write is not followed by the second, and a failed open
\* hands out no Connection and releases the resource exactly once.
C13_Normalized ==
  (ret.op = "open" /\ features # {}) =>
    /\ ret.kind = "Ok" => (~ret.null /\ ret.rc = OK)
    /\ (~ret.null /\ ret.rc = OK) =>
          LET w == ret.writes IN
          /\ ~panicked
          /\ Len(w) \in {1, 2}
          /\ w[1].flag = "DoubleQuotedStringDML" /\ w[1].value = FALSE
          /\ Len(w) = 2 =>
                (w[2].flag = "DoubleQuotedStringDDL" /\ w[2].value = FALSE)
          /\ WriteFailed(w[1]) =>
                /\ Len(w) = 1
                /\ ret.kind = "Err"
                /\ err = Some(MkError(w[1].rc, "", None))
                /\ ReleasedOnce
          /\ ~WriteFailed(w[1]) =>
                /\ Len(w) = 2
                /\ WriteFailed(w[2]) =>
                      /\ ret.kind = "Err"
                      /\ err = Some(MkError(w[2].rc, "", None))
                      /\ ReleasedOnce
                /\ ~WriteFailed(w[2]) =>
                      /\ ret.kind = "Ok"
                      /\ conn.state = "live"
                      /\ res.state = "open"
                      /\ res.closes = 0

\* The first write failed: open returned its Error without the second.
C13_Witness ==
  /\ ret.op = "open"
  /\ features # {}
  /\ ret.rc = OK
  /\ ~ret.null
  /\ Len(ret.writes) = 1
  /\ ret.writes[1].rc = 266
  /\ ret.kind = "Err"
  /\ res.closes = 1

\* C14: when sqlite3_open_v2 answers a status other than OK with a non-null
\* resource, open neither panics nor returns Ok: whatever the status and
\* whatever code the handle has recorded, it returns Err of an Error whose
\* code is not a success code.
C14_FailedOpenNeverPanics ==
  (ret.op = "open" /\ ~ret.null /\ ret.rc # OK) =>
    /\ ~panicked
    /\ ret.kind = "Err"
    /\ IsSome(err)
    /\ Low8(Unwrap(err).result_code) \notin {OK, ROW, DONE}

====
